---------------------------- MODULE Spec2Model ----------------------------
(***************************************************************************)
(* Model of src/app.py: the Streamlit script that reads three spreadsheets *)
(* (RETORNO DE BANHO, PRODUCAO, PROJECAO WM10), aggregates the two         *)
(* movement tables per (referencia, banho), left-joins them onto the       *)
(* forecast table and computes the quantity to send with a 30% margin.     *)
(*                                                                         *)
(* Text is a sequence of one-character strings, so that split, strip,      *)
(* upper, substring search and digit extraction are computed as the code   *)
(* computes them.  A missing cell (pandas NaN) is the one-element sequence *)
(* NaN, which is no text.  A column label is a pair <<stem, suffix>>: the  *)
(* label's text is stem followed by suffix, and the only prefixes the code *)
(* asks about are whole stems.                                             *)
(***************************************************************************)
EXTENDS Integers, Sequences, FiniteSets, TLC

VARIABLES
    pc,               \* position of the script run
    df_retorno_raw,   \* result of carregar_planilha(file_retorno)
    df_producao_raw,  \* result of carregar_planilha(file_producao)
    df_proj_raw,      \* result of carregar_planilha(file_proj)
    base_retorno,     \* result of preparar_retorno_ou_producao(.., "qtd_retorno")
    base_producao,    \* result of preparar_retorno_ou_producao(.., "qtd_producao")
    base_proj,        \* result of preparar_projecao(df_proj_raw)
    df_merge,         \* the joined table before the "> 0" filter (line 323)
    df_resultado,     \* the table displayed and offered for download
    errors,           \* the st.error reports, in order: <<pipeline, kind>>
    arg,              \* input of the function under test (SpecAgg, SpecInfer)
    ret               \* its result

vars == <<pc, df_retorno_raw, df_producao_raw, df_proj_raw, base_retorno,
          base_producao, base_proj, df_merge, df_resultado, errors, arg, ret>>

(***************************************************************************)
(* Bounds of the model.                                                    *)
(***************************************************************************)
\* rows of a movement spreadsheet
MaxMovRows == 2
\* rows of the forecast spreadsheet
MaxProjRows == 2
\* fragments concatenated into a product text given to infer_banho
MaxFrags == 2

(***************************************************************************)
(* Text: characters, case mapping, the str methods the code uses.          *)
(***************************************************************************)
\* The characters of the model's texts, in code point order.
Chars ==
    <<" ", "-", ".", "0", "1", "2", "3", "4", "5", "6", "7", "8", "9",
      "A", "B", "C", "D", "E", "F", "G", "H", "I", "J", "K", "L", "M",
      "N", "O", "P", "Q", "R", "S", "T", "U", "V", "W", "X", "Y", "Z",
      "a", "b", "c", "d", "e", "f", "g", "h", "i", "j", "k", "l", "m",
      "n", "o", "p", "q", "r", "s", "t", "u", "v", "w", "x", "y", "z",
      "Ã", "Ê", "Ó", "ã", "ê", "ó">>

LowerChars ==
    <<"a", "b", "c", "d", "e", "f", "g", "h", "i", "j", "k", "l", "m",
      "n", "o", "p", "q", "r", "s", "t", "u", "v", "w", "x", "y", "z",
      "ã", "ê", "ó">>

UpperChars ==
    <<"A", "B", "C", "D", "E", "F", "G", "H", "I", "J", "K", "L", "M",
      "N", "O", "P", "Q", "R", "S", "T", "U", "V", "W", "X", "Y", "Z",
      "Ã", "Ê", "Ó">>

Digits == <<"0", "1", "2", "3", "4", "5", "6", "7", "8", "9">>

IndexOf(seq, c) == CHOOSE i \in 1..Len(seq) : seq[i] = c

IsIn(seq, c) == \E i \in 1..Len(seq) : seq[i] = c

\* ord(c): the code point order, which is what pandas sorts text by
Ord(c) == IndexOf(Chars, c)

ToUpper(c) == IF IsIn(LowerChars, c) THEN UpperChars[IndexOf(LowerChars, c)] ELSE c

ToLower(c) == IF IsIn(UpperChars, c) THEN LowerChars[IndexOf(UpperChars, c)] ELSE c

\* str.upper()
upper(s) == [i \in 1..Len(s) |-> ToUpper(s[i])]

\* str.lower(), as the case-insensitive search of str.contains(case=False)
lower(s) == [i \in 1..Len(s) |-> ToLower(s[i])]

\* k in s
Contains(s, k) ==
    \E i \in 1..(Len(s) - Len(k) + 1) : SubSeq(s, i, i + Len(k) - 1) = k

\* position of the first occurrence of k in s, 0 when there is none
Find(s, k) ==
    IF Contains(s, k)
    THEN CHOOSE i \in 1..(Len(s) - Len(k) + 1) :
            /\ SubSeq(s, i, i + Len(k) - 1) = k
            /\ \A j \in 1..(i - 1) : SubSeq(s, j, j + Len(k) - 1) # k
    ELSE 0

IsSpace(c) == c = " "

\* str.strip()
strip(s) ==
    IF \A i \in 1..Len(s) : IsSpace(s[i])
    THEN <<>>
    ELSE LET a == CHOOSE i \in 1..Len(s) :
                      ~IsSpace(s[i]) /\ \A j \in 1..(i - 1) : IsSpace(s[j])
             b == CHOOSE i \in 1..Len(s) :
                      ~IsSpace(s[i]) /\ \A j \in (i + 1)..Len(s) : IsSpace(s[j])
         IN  SubSeq(s, a, b)

\* s.split(sep)[0]
split_first(s, sep) ==
    IF Find(s, sep) = 0 THEN s ELSE SubSeq(s, 1, Find(s, sep) - 1)

\* lexicographic order of two texts by code point: s < t
TextLess(s, t) ==
    \E i \in 1..(Len(t)) :
        /\ \A j \in 1..(i - 1) : j <= Len(s) /\ s[j] = t[j]
        /\ \/ i = Len(s) + 1
           \/ i <= Len(s) /\ Ord(s[i]) < Ord(t[i])

(***************************************************************************)
(* Cells: NaN, astype(str), numeric coercion.                              *)
(***************************************************************************)
NaN == <<"NaN">>

\* Series.astype(str) on an object column: a missing value becomes the text
\* "nan" (pandas 1.x and 2.x; the script pins no version)
astype_str(cell) == IF cell = NaN THEN <<"n", "a", "n">> ELSE cell

IsDigit(c) == IsIn(Digits, c)

DigitVal(c) == IndexOf(Digits, c) - 1

RECURSIVE DecVal(_)
DecVal(s) == IF s = <<>> THEN 0
             ELSE 10 * DecVal(SubSeq(s, 1, Len(s) - 1)) + DigitVal(s[Len(s)])

AllDigits(s) == s # <<>> /\ \A i \in 1..Len(s) : IsDigit(s[i])

\* A number that may be missing.
Num(v) == [isna |-> FALSE, val |-> v]
NaNum == [isna |-> TRUE, val |-> 0]

\* pd.to_numeric(cell, errors="coerce") of one cell.  Quantities are whole
\* numbers of pieces: the cells of the model hold an integer numeral, with an
\* optional sign, which is its value, or a text that is no number (or NaN),
\* which is missing.  Numerals with a fraction or an exponent are not among
\* the model's cells.
to_numeric(cell) ==
    IF cell = NaN THEN NaNum
    ELSE IF AllDigits(cell) THEN Num(DecVal(cell))
    ELSE IF Len(cell) > 1 /\ cell[1] = "-" /\ AllDigits(Tail(cell))
         THEN Num(0 - DecVal(Tail(cell)))
    ELSE NaNum

\* .fillna(0)
fillna0(n) == IF n.isna THEN 0 ELSE n.val

\* Series.str.extract(r"(\d+)")[0] of one text: the first maximal digit run,
\* NaN when the text has no digit
extract_digits(s) ==
    IF \A i \in 1..Len(s) : ~IsDigit(s[i])
    THEN NaN
    ELSE LET a == CHOOSE i \in 1..Len(s) :
                      IsDigit(s[i]) /\ \A j \in 1..(i - 1) : ~IsDigit(s[j])
             b == CHOOSE i \in a..Len(s) :
                      /\ \A j \in a..i : IsDigit(s[j])
                      /\ (i = Len(s) \/ ~IsDigit(s[i + 1]))
         IN  SubSeq(s, a, b)

(***************************************************************************)
(* infer_banho (lines 45-54).                                              *)
(***************************************************************************)
Ouro == <<"O", "u", "r", "o">>
Rodio == <<"R", "ó", "d", "i", "o">>
Prata == <<"P", "r", "a", "t", "a">>
Desconhecido == <<"D", "e", "s", "c", "o", "n", "h", "e", "c", "i", "d", "o">>

KW_OURO == <<"O", "U", "R", "O">>
KW_RODIO_ACENTO == <<"R", "Ó", "D", "I", "O">>
KW_RODIO == <<"R", "O", "D", "I", "O">>
KW_PRATA == <<"P", "R", "A", "T", "A">>

\* infer_banho with the RÓDIO test moved before the OURO test
infer_banho_rodio_primeiro(produto) ==
    LET s == upper(astype_str(produto))
    IN  IF Contains(s, KW_RODIO_ACENTO) \/ Contains(s, KW_RODIO) THEN Rodio
        ELSE IF Contains(s, KW_OURO) THEN Ouro
        ELSE IF Contains(s, KW_PRATA) THEN Prata
        ELSE Desconhecido

infer_banho(produto) ==
    LET s == upper(astype_str(produto))
    IN  IF Contains(s, KW_OURO) THEN Ouro
        ELSE IF Contains(s, KW_RODIO_ACENTO) \/ Contains(s, KW_RODIO) THEN Rodio
        ELSE IF Contains(s, KW_PRATA) THEN Prata
        ELSE Desconhecido

(***************************************************************************)
(* Tables.  A DataFrame is [ok, columns, rows]: columns a sequence of      *)
(* labels, rows a sequence of cell sequences aligned with columns.  None   *)
(* is the value the loaders and builders return on failure.                *)
(***************************************************************************)
None == [ok |-> FALSE, columns |-> <<>>, rows |-> <<>>]

DataFrame(columns, rows) == [ok |-> TRUE, columns |-> columns, rows |-> rows]

Col(name) == <<name, "">>

\* c.startswith(prefix) for a label <<stem, suffix>> and a prefix that is a stem
StartsWith(c, prefix) == c[1] = prefix

HasCol(df, c) == IsIn(df.columns, c)

\* df[c] of one row
Cell(df, row, c) == row[IndexOf(df.columns, c)]

\* the first label of cols that starts with prefix, <<>> (None) when there is none
FirstStartingWith(cols, prefix) ==
    IF \E i \in 1..Len(cols) : StartsWith(cols[i], prefix)
    THEN cols[CHOOSE i \in 1..Len(cols) :
                 /\ StartsWith(cols[i], prefix)
                 /\ \A j \in 1..(i - 1) : ~StartsWith(cols[j], prefix)]
    ELSE <<>>

(***************************************************************************)
(* carregar_xls_html (57-87) and carregar_planilha (90-109).  An uploaded  *)
(* file is [ext, html, readable, tables]: its extension, whether its bytes *)
(* start with "<", whether the parser reads it without raising, and the    *)
(* grids the parser finds, each grid's first row holding the labels.       *)
(***************************************************************************)
Loaded(df, err) == [df |-> df, err |-> err]

carregar_xls_html(f) ==
    IF ~f.html THEN Loaded(None, "not_html")
    ELSE IF ~f.readable THEN Loaded(None, "read_html_failed")
    ELSE IF f.tables = <<>> THEN Loaded(None, "no_table")
    \* df.iloc[0] of a table without rows raises; carregar_planilha catches it
    ELSE IF f.tables[1] = <<>> THEN Loaded(None, "read_failed")
    ELSE Loaded(DataFrame(Head(f.tables[1]), Tail(f.tables[1])), "none")

\* the sheet of an .xlsx or .csv file
Grid(f) == IF f.tables = <<>> THEN <<>> ELSE f.tables[1]

carregar_planilha(f) ==
    IF f.ext = "xls" THEN carregar_xls_html(f)
    ELSE IF f.ext = "xlsx"
         THEN IF ~f.readable THEN Loaded(None, "read_failed")
              \* an empty sheet is an empty DataFrame without columns
              ELSE IF Grid(f) = <<>> THEN Loaded(DataFrame(<<>>, <<>>), "none")
              ELSE Loaded(DataFrame(Head(Grid(f)), Tail(Grid(f))), "none")
    ELSE IF f.ext = "csv"
         \* read_csv raises on a file without a header line
         THEN IF ~f.readable \/ Grid(f) = <<>> THEN Loaded(None, "read_failed")
              ELSE Loaded(DataFrame(Head(Grid(f)), Tail(Grid(f))), "none")
    ELSE Loaded(None, "unsupported_format")

(***************************************************************************)
(* preparar_retorno_ou_producao (112-144).                                 *)
(***************************************************************************)
col_obrigatorias == {Col("Produto"), Col("Categoria"), Col("A Produzir")}

SEP == <<" ", "-", " ">>

\* the assign(...)[["referencia", "banho", "qtd"]] of one row (lines 130-138)
MovRow(df, row) ==
    [referencia |-> strip(split_first(astype_str(Cell(df, row, Col("Produto"))), SEP)),
     banho      |-> strip(astype_str(Cell(df, row, Col("Categoria")))),
     qtd        |-> fillna0(to_numeric(Cell(df, row, Col("A Produzir"))))]

KeyOf(r) == <<r.referencia, r.banho>>

KeyLess(k1, k2) ==
    \/ TextLess(k1[1], k2[1])
    \/ k1[1] = k2[1] /\ TextLess(k1[2], k2[2])

\* the keys of a set in ascending order (groupby sorts its groups)
RECURSIVE SortKeys(_)
SortKeys(ks) ==
    IF ks = {} THEN <<>>
    ELSE LET m == CHOOSE k \in ks : \A o \in ks \ {k} : KeyLess(k, o)
         IN  <<m>> \o SortKeys(ks \ {m})

\* SumQtd that keeps the last quantity of the key instead of adding
RECURSIVE SumQtd_ultimo(_, _)
SumQtd_ultimo(rs, k) ==
    IF rs = <<>> THEN 0
    ELSE IF KeyOf(rs[Len(rs)]) = k THEN rs[Len(rs)].qtd
    ELSE SumQtd_ultimo(SubSeq(rs, 1, Len(rs) - 1), k)

RECURSIVE SumQtd(_, _)
SumQtd(rs, k) ==
    IF rs = <<>> THEN 0
    ELSE (IF KeyOf(Head(rs)) = k THEN Head(rs).qtd ELSE 0) + SumQtd(Tail(rs), k)

\* GroupBySum without the grouping: one row per input row
GroupBySum_sem_groupby(rs) == rs

\* .groupby(["referencia", "banho"], as_index=False)["qtd"].sum()
GroupBySum(rs) ==
    LET ks == SortKeys({KeyOf(rs[i]) : i \in 1..Len(rs)})
    IN  [i \in 1..Len(ks) |->
            [referencia |-> ks[i][1], banho |-> ks[i][2], qtd |-> SumQtd(rs, ks[i])]]

\* the aggregated table; its quantity column, renamed to nome_qtd by the
\* code, is the field qtd of the table that the caller stores under that name
preparar_retorno_ou_producao(df) ==
    IF \E c \in col_obrigatorias : ~HasCol(df, c)
    THEN Loaded(None, "missing_columns")
    ELSE Loaded([ok |-> TRUE, columns |-> <<>>,
                 rows |-> GroupBySum([i \in 1..Len(df.rows) |-> MovRow(df, df.rows[i])])],
                "none")

(***************************************************************************)
(* preparar_projecao (147-223).                                            *)
(***************************************************************************)
REFERENCIA == <<"R", "e", "f", "e", "r", "ê", "n", "c", "i", "a">>
TOTAIS == <<"t", "o", "t", "a", "i", "s">>
PREVIS == <<"p", "r", "e", "v", "i", "s">>

\* lines 192-199: rows that are no total, footer or repeated header
KeepProjRow(df, row) ==
    LET r == Cell(df, row, Col("Referência"))
    IN  /\ r # NaN
        /\ r # REFERENCIA
        /\ ~(Contains(lower(astype_str(r)), TOTAIS) \/ Contains(lower(astype_str(r)), PREVIS))

\* lines 201-210: '28 UN' -> 28, no digit -> 0
ExtractQty(cell) ==
    LET d == extract_digits(astype_str(cell))
    IN  fillna0(to_numeric(d))

ProjRow(df, row, forecast_col, estoque_col) ==
    [referencia    |-> strip(astype_str(Cell(df, row, Col("Referência")))),
     banho         |-> infer_banho(Cell(df, row, Col("Produto"))),
     qtd_projetada |-> ExtractQty(Cell(df, row, forecast_col)),
     qtd_estoque   |-> IF estoque_col # <<>>
                       THEN ExtractQty(Cell(df, row, estoque_col))
                       ELSE 0]

preparar_projecao(df) ==
    IF ~df.ok THEN Loaded(None, "none")
    ELSE IF ~HasCol(df, Col("Referência")) \/ ~HasCol(df, Col("Produto"))
    THEN Loaded(None, "missing_columns")
    ELSE LET forecast_col == FirstStartingWith(df.columns, "Previsão de Venda")
             estoque_col  == FirstStartingWith(df.columns, "Estoque Atual")
             Keep(row)    == KeepProjRow(df, row)
             df2          == SelectSeq(df.rows, Keep)
         IN  IF forecast_col = <<>>
             THEN Loaded(None, "forecast_column_not_found")
             ELSE Loaded([ok |-> TRUE, columns |-> <<>>,
                          rows |-> [i \in 1..Len(df2) |->
                                       ProjRow(df, df2[i], forecast_col, estoque_col)]],
                         "none")

(***************************************************************************)
(* The processing block (lines 288-343).                                   *)
(***************************************************************************)
\* merge_left as an inner join: a left row without a match is dropped
RECURSIVE merge_inner(_, _)
merge_inner(left, right) ==
    IF left = <<>> THEN <<>>
    ELSE LET l       == Head(left)
             SameKey(r) == KeyOf(r) = KeyOf(l)
             matches == SelectSeq(right, SameKey)
         IN  [i \in 1..Len(matches) |-> <<l, Num(matches[i].qtd)>>]
             \o merge_inner(Tail(left), right)

\* left.merge(right, on=["referencia", "banho"], how="left"): every left row,
\* in order, once per right row of its key, or once with a missing quantity
\* when the right table has no row of its key.  The result pairs each left
\* row with the quantity joined to it.
RECURSIVE merge_left(_, _)
merge_left(left, right) ==
    IF left = <<>> THEN <<>>
    ELSE LET l       == Head(left)
             SameKey(r) == KeyOf(r) = KeyOf(l)
             matches == SelectSeq(right, SameKey)
         IN  (IF matches = <<>>
              THEN << <<l, NaNum>> >>
              ELSE [i \in 1..Len(matches) |-> <<l, Num(matches[i].qtd)>>])
             \o merge_left(Tail(left), right)

\* lines 297-308: both merges, then NaN as 0
MergeAll(proj, producao, retorno) ==
    LET m1 == merge_left(proj, producao)
        r1 == [i \in 1..Len(m1) |->
                  [referencia    |-> m1[i][1].referencia,
                   banho         |-> m1[i][1].banho,
                   qtd_projetada |-> m1[i][1].qtd_projetada,
                   qtd_estoque   |-> m1[i][1].qtd_estoque,
                   qtd_producao  |-> m1[i][2]]]
        m2 == merge_left(r1, retorno)
    IN  [i \in 1..Len(m2) |->
            [referencia    |-> m2[i][1].referencia,
             banho         |-> m2[i][1].banho,
             qtd_projetada |-> m2[i][1].qtd_projetada,
             qtd_estoque   |-> m2[i][1].qtd_estoque,
             qtd_producao  |-> fillna0(m2[i][1].qtd_producao),
             qtd_retorno   |-> fillna0(m2[i][2])]]

\* qtd_ja_coberta without the stock
qtd_ja_coberta_sem_estoque(r) == r.qtd_producao + r.qtd_retorno

\* lines 311-313
qtd_ja_coberta(r) == r.qtd_producao + r.qtd_retorno + r.qtd_estoque

\* Series.clip(lower=0)
clip0(x) == IF x < 0 THEN 0 ELSE x

\* lines 316-318
qtd_a_enviar_base(r) == clip0(r.qtd_projetada - qtd_ja_coberta(r))

\* the margin 1.3 of line 322 as the fraction MargemNum / MargemDen
MargemNum == 13
MargemDen == 10

\* qtd_a_enviar_margem rounding down instead of up
qtd_a_enviar_margem_floor(x) == (MargemNum * x) \div MargemDen

\* np.ceil(x * 1.3).astype(int) of an integer x: the product of an integer
\* below 2^53 / 13 and the double 1.3 rounds to the exact 13*x/10 when that
\* is an integer and stays strictly between its neighbours otherwise
qtd_a_enviar_margem(x) == 0 - ((0 - MargemNum * x) \div MargemDen)

\* PrecisaEnviar that keeps the rows with nothing to send
PrecisaEnviar_ge0(r) == r.qtd_a_enviar_margem >= 0

\* line 326
PrecisaEnviar(r) == r.qtd_a_enviar_margem > 0

Calcular(r) ==
    [referencia          |-> r.referencia,
     banho               |-> r.banho,
     qtd_projetada       |-> r.qtd_projetada,
     qtd_estoque         |-> r.qtd_estoque,
     qtd_producao        |-> r.qtd_producao,
     qtd_retorno         |-> r.qtd_retorno,
     qtd_ja_coberta      |-> qtd_ja_coberta(r),
     qtd_a_enviar_margem |-> qtd_a_enviar_margem(qtd_a_enviar_base(r))]

\* line 329: sort_values(by=["banho", "referencia"]), which keeps the order
\* of rows with equal keys
SortLess(a, b) == KeyLess(<<a.banho, a.referencia>>, <<b.banho, b.referencia>>)

InsertSorted(sorted, r) ==
    LET n == Cardinality({i \in 1..Len(sorted) : ~SortLess(r, sorted[i])})
        \* r goes after the last row that is not greater than it
        k == IF \E i \in 1..Len(sorted) : SortLess(r, sorted[i])
             THEN (CHOOSE i \in 1..Len(sorted) :
                      /\ SortLess(r, sorted[i])
                      /\ \A j \in 1..(i - 1) : ~SortLess(r, sorted[j])) - 1
             ELSE n
    IN  SubSeq(sorted, 1, k) \o <<r>> \o SubSeq(sorted, k + 1, Len(sorted))

RECURSIVE sort_values(_)
sort_values(rows) ==
    IF rows = <<>> THEN <<>>
    ELSE InsertSorted(sort_values(SubSeq(rows, 1, Len(rows) - 1)), rows[Len(rows)])

\* lines 297-323: the joined table with its computed columns
JoinedTable(proj, producao, retorno) ==
    LET m == MergeAll(proj, producao, retorno)
    IN  [i \in 1..Len(m) |-> Calcular(m[i])]

\* lines 326-343: the table shown and exported
Resultado(joined) == sort_values(SelectSeq(joined, PrecisaEnviar))

(***************************************************************************)
(* The files a run may be given.                                           *)
(***************************************************************************)
SeqsUpTo(S, n) == UNION {[1..k -> S] : k \in 0..n}

T_A_x == <<"A", " ", "-", " ", "x">>
T_B_y == <<"B", " ", "-", " ", "y">>

MovHeader == <<Col("Produto"), Col("Categoria"), Col("A Produzir")>>

\* <<Produto, Categoria, A Produzir>>
RunMovPool ==
    { <<T_A_x, Ouro, <<"5">>>>,
      <<T_B_y, Rodio, <<"3">>>> }

Sheet(ext, html, header, rows) ==
    [ext |-> ext, html |-> html, readable |-> TRUE, tables |-> << <<header>> \o rows >>]

Unreadable(ext, html) ==
    [ext |-> ext, html |-> html, readable |-> FALSE, tables |-> <<>>]

MovFiles ==
    {Sheet("xlsx", FALSE, MovHeader, rows) : rows \in SeqsUpTo(RunMovPool, MaxMovRows)}
    \cup {Sheet("csv", FALSE, <<Col("Produto"), Col("A Produzir")>>, << <<T_A_x, <<"5">>>> >>),
          [ext |-> "xlsx", html |-> FALSE, readable |-> TRUE, tables |-> << <<>> >>],
          Unreadable("csv", FALSE)}

PrevisaoCol == <<"Previsão de Venda", " (01/11/2024)">>
EstoqueCol == <<"Estoque Atual", " (UN)">>

ProjHeader == <<Col("Referência"), Col("Produto"), PrevisaoCol, EstoqueCol>>
ProjHeaderSemEstoque == <<Col("Referência"), Col("Produto"), PrevisaoCol>>

\* <<Referência, Produto, Previsão de Venda, Estoque Atual>>
ProjPool ==
    { <<<<"A">>, <<"o", "u", "r", "o">>, <<"1", "0", " ", "U", "N">>, <<"0">>>>,
      <<<<" ", "A">>, <<"O", "u", "r", "o">>, <<"1", "1">>, <<"3", " ", "U", "N">>>>,
      <<<<"B">>, <<"r", "o", "d", "i", "o">>, <<"5">>, NaN>>,
      <<<<"T", "o", "t", "a", "i", "s">>, NaN, <<"2", "6">>, <<"3">>>> }

ProjFiles ==
    {Sheet("xls", TRUE, ProjHeader, rows) : rows \in SeqsUpTo(ProjPool, MaxProjRows)}
    \cup {Sheet("xls", TRUE, ProjHeaderSemEstoque,
                [i \in 1..Len(rows) |-> SubSeq(rows[i], 1, 3)]) :
             rows \in SeqsUpTo(ProjPool, MaxProjRows)}
    \cup {Sheet("xls", TRUE, <<Col("Referência"), Col("Produto"), EstoqueCol>>,
                << <<<<"A">>, Ouro, <<"1">>>> >>),
          Sheet("xlsx", FALSE, <<Col("Produto"), PrevisaoCol>>, << <<Ouro, <<"1">>>> >>),
          Sheet("xls", FALSE, ProjHeader, <<>>),
          [ext |-> "xls", html |-> TRUE, readable |-> TRUE, tables |-> << <<>> >>],
          Unreadable("xls", TRUE)}

(***************************************************************************)
(* The script run (lines 255-370), one action per step.                    *)
(***************************************************************************)
Report(errs, pipeline, err) ==
    IF err = "none" THEN errs ELSE Append(errs, <<pipeline, err>>)

\* LoadFailed that forgets the return table
LoadFailed_sem_retorno(r, p, j) == ~p.ok \/ ~j.ok

\* line 267
LoadFailed(r, p, j) == ~r.ok \/ ~p.ok \/ ~j.ok

\* PrepFailed that forgets the forecast table
PrepFailed_sem_proj(r, p, j) == ~r.ok \/ ~p.ok

\* line 293
PrepFailed(r, p, j) == ~r.ok \/ ~p.ok \/ ~j.ok

Init ==
    /\ pc = "upload"
    /\ df_retorno_raw = None
    /\ df_producao_raw = None
    /\ df_proj_raw = None
    /\ base_retorno = None
    /\ base_producao = None
    /\ base_proj = None
    /\ df_merge = <<>>
    /\ df_resultado = <<>>
    /\ errors = <<>>
    /\ arg = <<>>
    /\ ret = <<>>

\* lines 255-257: the run stops unless the three files are given
Upload ==
    /\ pc = "upload"
    /\ \E todas \in BOOLEAN :
          pc' = IF todas THEN "load_retorno" ELSE "stopped_upload"
    /\ UNCHANGED <<df_retorno_raw, df_producao_raw, df_proj_raw, base_retorno,
                   base_producao, base_proj, df_merge, df_resultado, errors,
                   arg, ret>>

\* line 263
LoadRetorno ==
    /\ pc = "load_retorno"
    /\ \E f \in MovFiles :
          /\ df_retorno_raw' = carregar_planilha(f).df
          /\ errors' = Report(errors, "retorno", carregar_planilha(f).err)
    /\ pc' = "load_producao"
    /\ UNCHANGED <<df_producao_raw, df_proj_raw, base_retorno, base_producao,
                   base_proj, df_merge, df_resultado, arg, ret>>

\* line 264
LoadProducao ==
    /\ pc = "load_producao"
    /\ \E f \in MovFiles :
          /\ df_producao_raw' = carregar_planilha(f).df
          /\ errors' = Report(errors, "producao", carregar_planilha(f).err)
    /\ pc' = "load_proj"
    /\ UNCHANGED <<df_retorno_raw, df_proj_raw, base_retorno, base_producao,
                   base_proj, df_merge, df_resultado, arg, ret>>

\* line 265
LoadProj ==
    /\ pc = "load_proj"
    /\ \E f \in ProjFiles :
          /\ df_proj_raw' = carregar_planilha(f).df
          /\ errors' = Report(errors, "proj", carregar_planilha(f).err)
    /\ pc' = "check_load"
    /\ UNCHANGED <<df_retorno_raw, df_producao_raw, base_retorno, base_producao,
                   base_proj, df_merge, df_resultado, arg, ret>>

\* lines 267-286: stop, or show the previews and the button
CheckLoad ==
    /\ pc = "check_load"
    /\ pc' = IF LoadFailed(df_retorno_raw, df_producao_raw, df_proj_raw)
             THEN "stopped_load" ELSE "button"
    /\ UNCHANGED <<df_retorno_raw, df_producao_raw, df_proj_raw, base_retorno,
                   base_producao, base_proj, df_merge, df_resultado, errors,
                   arg, ret>>

\* line 288: the button is clicked, or the run ends with nothing computed
Button ==
    /\ pc = "button"
    /\ \E clicked \in BOOLEAN :
          pc' = IF clicked THEN "prep_retorno" ELSE "idle"
    /\ UNCHANGED <<df_retorno_raw, df_producao_raw, df_proj_raw, base_retorno,
                   base_producao, base_proj, df_merge, df_resultado, errors,
                   arg, ret>>

\* line 289
PrepRetorno ==
    /\ pc = "prep_retorno"
    /\ base_retorno' = preparar_retorno_ou_producao(df_retorno_raw).df
    /\ errors' = Report(errors, "retorno", preparar_retorno_ou_producao(df_retorno_raw).err)
    /\ pc' = "prep_producao"
    /\ UNCHANGED <<df_retorno_raw, df_producao_raw, df_proj_raw, base_producao,
                   base_proj, df_merge, df_resultado, arg, ret>>

\* line 290
PrepProducao ==
    /\ pc = "prep_producao"
    /\ base_producao' = preparar_retorno_ou_producao(df_producao_raw).df
    /\ errors' = Report(errors, "producao", preparar_retorno_ou_producao(df_producao_raw).err)
    /\ pc' = "prep_proj"
    /\ UNCHANGED <<df_retorno_raw, df_producao_raw, df_proj_raw, base_retorno,
                   base_proj, df_merge, df_resultado, arg, ret>>

\* line 291
PrepProj ==
    /\ pc = "prep_proj"
    /\ base_proj' = preparar_projecao(df_proj_raw).df
    /\ errors' = Report(errors, "proj", preparar_projecao(df_proj_raw).err)
    /\ pc' = "check_prep"
    /\ UNCHANGED <<df_retorno_raw, df_producao_raw, df_proj_raw, base_retorno,
                   base_producao, df_merge, df_resultado, arg, ret>>

\* lines 293-370: stop, or reconcile, show and offer the download
Reconcile ==
    /\ pc = "check_prep"
    /\ IF PrepFailed(base_retorno, base_producao, base_proj)
       THEN /\ pc' = "stopped_prep"
            /\ UNCHANGED <<df_merge, df_resultado>>
       ELSE /\ df_merge' = JoinedTable(base_proj.rows, base_producao.rows,
                                       base_retorno.rows)
            /\ df_resultado' = Resultado(df_merge')
            /\ pc' = "done"
    /\ UNCHANGED <<df_retorno_raw, df_producao_raw, df_proj_raw, base_retorno,
                   base_producao, base_proj, errors, arg, ret>>

Next ==
    \/ Upload
    \/ LoadRetorno
    \/ LoadProducao
    \/ LoadProj
    \/ CheckLoad
    \/ Button
    \/ PrepRetorno
    \/ PrepProducao
    \/ PrepProj
    \/ Reconcile

Spec == Init /\ [][Next]_vars

(***************************************************************************)
(* SpecAgg: preparar_retorno_ou_producao applied to one movement table.    *)
(***************************************************************************)
\* <<Produto, Categoria, A Produzir>>
AggPool ==
    { <<T_A_x, Ouro, <<"5">>>>,
      <<<<"A">>, <<" ", "O", "u", "r", "o", " ">>, <<"1", "2">>>>,
      <<T_A_x, Rodio, <<"x">>>>,
      <<T_B_y, Rodio, NaN>>,
      <<<<" ", "B", " ", " ", "-", " ", "y", " ", "-", " ", "z">>, Rodio, <<"3">>>>,
      <<NaN, Ouro, <<"7">>>>,
      <<<<>>, Rodio, <<"1">>>>,
      <<<<"A", "-", "x">>, NaN, <<"-", "2">>>> }

AggInputs ==
    {DataFrame(MovHeader, rows) : rows \in SeqsUpTo(AggPool, MaxMovRows)}
    \cup {DataFrame(<<Col("Produto"), Col("A Produzir")>>, << <<T_A_x, <<"5">>>> >>),
          DataFrame(<<>>, <<>>)}

RestIdle ==
    /\ df_retorno_raw = None
    /\ df_producao_raw = None
    /\ df_proj_raw = None
    /\ base_retorno = None
    /\ base_producao = None
    /\ base_proj = None
    /\ df_merge = <<>>
    /\ df_resultado = <<>>
    /\ errors = <<>>

InitAgg ==
    /\ pc = "agg_call"
    /\ arg \in AggInputs
    /\ ret = Loaded(None, "none")
    /\ RestIdle

AggCall ==
    /\ pc = "agg_call"
    /\ ret' = preparar_retorno_ou_producao(arg)
    /\ pc' = "agg_ret"
    /\ UNCHANGED <<df_retorno_raw, df_producao_raw, df_proj_raw, base_retorno,
                   base_producao, base_proj, df_merge, df_resultado, errors, arg>>

NextAgg == AggCall

SpecAgg == InitAgg /\ [][NextAgg]_vars

(***************************************************************************)
(* SpecInfer: infer_banho applied to one product text.                     *)
(***************************************************************************)
FragPool ==
    { <<"O", "U", "R", "O">>,
      <<"o", "u", "r", "o">>,
      <<"R", "ó", "d", "i", "o">>,
      <<"R", "O", "D", "I", "O">>,
      <<"p", "r", "a", "t", "a">>,
      <<"O", "u">>,
      <<"r", "o">>,
      <<"A", "n", "e", "l", " ">>,
      <<"R", "Ó">>,
      <<"d", "i", "o", " ">> }

RECURSIVE Concat(_)
Concat(ss) == IF ss = <<>> THEN <<>> ELSE Head(ss) \o Concat(Tail(ss))

InferInputs == {Concat(fs) : fs \in SeqsUpTo(FragPool, MaxFrags)} \cup {NaN}

InitInfer ==
    /\ pc = "infer_call"
    /\ arg \in InferInputs
    /\ ret = <<>>
    /\ RestIdle

InferCall ==
    /\ pc = "infer_call"
    /\ ret' = infer_banho(arg)
    /\ pc' = "infer_ret"
    /\ UNCHANGED <<df_retorno_raw, df_producao_raw, df_proj_raw, base_retorno,
                   base_producao, base_proj, df_merge, df_resultado, errors, arg>>

NextInfer == InferCall

SpecInfer == InitInfer /\ [][NextInfer]_vars

(***************************************************************************)
(* Properties.                                                             *)
(***************************************************************************)
Idx(seq) == 1..Len(seq)

Count(seq, r) == Cardinality({i \in Idx(seq) : seq[i] = r})

HasKey(rows, k) == \E i \in Idx(rows) : KeyOf(rows[i]) = k

\* the statement of C1 for one row
C1_Row(r) ==
    LET d    == r.qtd_projetada - r.qtd_ja_coberta
        base == IF d > 0 THEN d ELSE 0
        n    == r.qtd_a_enviar_margem
    IN  /\ 10 * n >= 13 * base
        /\ 10 * (n - 1) < 13 * base
        /\ (r.qtd_projetada = 10 /\ r.qtd_ja_coberta = 0 => n = 13)
        /\ (r.qtd_projetada = 11 /\ r.qtd_ja_coberta = 8 => n = 4)

\* C1: in every row of the reconciled table (before and after the filter)
\* the quantity to send is the least integer n with 10*n >= 13*base, where
\* base = max(0, forecast - covered); forecast 10 with covered 0 gives 13 and
\* forecast 11 with covered 8 gives 4.
C1_ToSend ==
    /\ \A i \in Idx(df_merge) : C1_Row(df_merge[i])
    /\ \A i \in Idx(df_resultado) : C1_Row(df_resultado[i])

C1_Witness ==
    /\ pc = "done"
    /\ \E i \in Idx(df_resultado) :
          /\ df_resultado[i].qtd_projetada = 11
          /\ df_resultado[i].qtd_ja_coberta = 8
          /\ df_resultado[i].qtd_a_enviar_margem = 4
    /\ \E i \in Idx(df_merge) :
          /\ df_merge[i].qtd_projetada < df_merge[i].qtd_ja_coberta
          /\ df_merge[i].qtd_a_enviar_margem = 0

NoEstoqueCol(df) == \A i \in Idx(df.columns) : df.columns[i][1] # "Estoque Atual"

\* C2: in every row of the output table the covered quantity is production
\* + return + stock of that row, and the stock is 0 in every row when the
\* forecast file has no column starting with "Estoque Atual".
C2_Covered ==
    /\ \A i \in Idx(df_resultado) :
          LET r == df_resultado[i]
          IN  r.qtd_ja_coberta = r.qtd_producao + r.qtd_retorno + r.qtd_estoque
    /\ (pc = "done" /\ NoEstoqueCol(df_proj_raw)
           => \A i \in Idx(df_resultado) : df_resultado[i].qtd_estoque = 0)

C2_Witness ==
    /\ pc = "done"
    /\ ~NoEstoqueCol(df_proj_raw)
    /\ \E i \in Idx(df_resultado) :
          /\ df_resultado[i].qtd_estoque > 0
          /\ df_resultado[i].qtd_producao > 0
          /\ df_resultado[i].qtd_ja_coberta
                 = df_resultado[i].qtd_estoque + df_resultado[i].qtd_producao

\* C3: the output table has no row with 0 to send, and holds every joined
\* row with more than 0 to send, as often as the join produced it and nothing
\* else.
C3_Filter ==
    pc = "done" =>
        /\ \A i \in Idx(df_resultado) : df_resultado[i].qtd_a_enviar_margem # 0
        /\ \A i \in Idx(df_merge) :
              df_merge[i].qtd_a_enviar_margem > 0
                  => Count(df_resultado, df_merge[i]) = Count(df_merge, df_merge[i])
        /\ Len(df_resultado)
               = Cardinality({i \in Idx(df_merge) : df_merge[i].qtd_a_enviar_margem > 0})

C3_Witness ==
    /\ pc = "done"
    /\ \E i \in Idx(df_merge) : df_merge[i].qtd_a_enviar_margem = 0
    /\ \E i \in Idx(df_merge) : df_merge[i].qtd_a_enviar_margem > 0
    /\ Len(df_resultado) < Len(df_merge)

\* C4: the join is a left join on (referencia, banho) with the forecast on
\* the left: every forecast row is joined; a row whose key the production
\* (return) table lacks gets production (return) 0; a matched row gets the
\* aggregated quantity of its key; no joined row has a key the forecast lacks.
C4_LeftJoin ==
    pc = "done" =>
        /\ \A i \in Idx(base_proj.rows) : HasKey(df_merge, KeyOf(base_proj.rows[i]))
        /\ \A i \in Idx(df_merge) :
              LET r == df_merge[i]
              IN  /\ HasKey(base_proj.rows, KeyOf(r))
                  /\ IF HasKey(base_producao.rows, KeyOf(r))
                     THEN \E j \in Idx(base_producao.rows) :
                             /\ KeyOf(base_producao.rows[j]) = KeyOf(r)
                             /\ base_producao.rows[j].qtd = r.qtd_producao
                     ELSE r.qtd_producao = 0
                  /\ IF HasKey(base_retorno.rows, KeyOf(r))
                     THEN \E j \in Idx(base_retorno.rows) :
                             /\ KeyOf(base_retorno.rows[j]) = KeyOf(r)
                             /\ base_retorno.rows[j].qtd = r.qtd_retorno
                     ELSE r.qtd_retorno = 0

C4_Witness ==
    /\ pc = "done"
    /\ \E i \in Idx(df_merge) :
          /\ ~HasKey(base_producao.rows, KeyOf(df_merge[i]))
          /\ HasKey(base_retorno.rows, KeyOf(df_merge[i]))
          /\ df_merge[i].qtd_retorno > 0
    /\ \E j \in Idx(base_producao.rows) :
          ~HasKey(base_proj.rows, KeyOf(base_producao.rows[j]))

MovValid(df) == df.ok /\ \A c \in col_obrigatorias : HasCol(df, c)

ProjValid(df) ==
    /\ df.ok
    /\ HasCol(df, Col("Referência"))
    /\ HasCol(df, Col("Produto"))
    /\ \E i \in Idx(df.columns) : df.columns[i][1] = "Previsão de Venda"

\* C5: no partial output: a run in which any pipeline reported a failure
\* never computes a result table, and a result exists only when the three
\* files were loaded and hold the columns their role requires.
C5_NoPartialOutput ==
    /\ errors # <<>> => pc # "done" /\ df_merge = <<>> /\ df_resultado = <<>>
    /\ (pc = "done" \/ df_merge # <<>> \/ df_resultado # <<>>)
           => /\ MovValid(df_retorno_raw)
              /\ MovValid(df_producao_raw)
              /\ ProjValid(df_proj_raw)
              /\ errors = <<>>

C5_Witness ==
    /\ pc = "stopped_prep"
    /\ df_retorno_raw.ok /\ df_producao_raw.ok /\ df_proj_raw.ok
    /\ base_retorno.ok /\ base_producao.ok /\ ~base_proj.ok
    /\ errors = << <<"proj", "forecast_column_not_found">> >>
    /\ df_resultado = <<>>

Reported(p) == \E i \in Idx(errors) : errors[i][1] = p

Failures(r, p, j) ==
    (IF r.ok THEN 0 ELSE 1) + (IF p.ok THEN 0 ELSE 1) + (IF j.ok THEN 0 ELSE 1)

InKey(i) == KeyOf(MovRow(arg, arg.rows[i]))

InQtd(i) ==
    LET n == to_numeric(Cell(arg, arg.rows[i], Col("A Produzir")))
    IN  IF n.isna THEN 0 ELSE n.val

RECURSIVE SumOver(_)
SumOver(S) ==
    IF S = {} THEN 0
    ELSE LET i == CHOOSE x \in S : TRUE IN InQtd(i) + SumOver(S \ {i})

\* C7: aggregating a movement table that has the required columns never
\* fails and yields exactly one row per (referencia, banho) pair of the
\* input, whose quantity is the sum of "A Produzir" over the input rows of
\* that pair, a non-numeric or missing quantity counting as 0.
C7_Aggregation ==
    (pc = "agg_ret" /\ \A c \in col_obrigatorias : HasCol(arg, c)) =>
        /\ ret.df.ok
        /\ ret.err = "none"
        /\ \A i \in Idx(arg.rows) :
              Cardinality({j \in Idx(ret.df.rows) : KeyOf(ret.df.rows[j]) = InKey(i)}) = 1
        /\ \A j \in Idx(ret.df.rows) :
              /\ \E i \in Idx(arg.rows) : InKey(i) = KeyOf(ret.df.rows[j])
              /\ ret.df.rows[j].qtd
                     = SumOver({i \in Idx(arg.rows) : InKey(i) = KeyOf(ret.df.rows[j])})

C7_Witness ==
    /\ pc = "agg_ret"
    /\ Len(ret.df.rows) = 1
    /\ \E i, j \in Idx(arg.rows) :
          /\ i # j
          /\ arg.rows[i] # arg.rows[j]
          /\ InKey(i) = InKey(j)
          /\ Cell(arg, arg.rows[i], Col("A Produzir")) = NaN
          /\ InQtd(j) > 0
          /\ ret.df.rows[1].qtd = InQtd(j)

ProdutoVazio(i) ==
    Cell(arg, arg.rows[i], Col("Produto")) \in {NaN, <<>>}

\* C8 as stated: an input row whose Produto is empty or missing never
\* creates, or contributes to, a row of the aggregated table.
C8_OnlyNonEmptyProduto ==
    (pc = "agg_ret" /\ ret.df.ok) =>
        \A i \in Idx(arg.rows) :
            ProdutoVazio(i) =>
                ~\E j \in Idx(ret.df.rows) : KeyOf(ret.df.rows[j]) = InKey(i)

HasKW(k) == Contains(upper(astype_str(arg)), k)

\* C9: infer_banho tests the upper-cased text for OURO, then RÓDIO or RODIO,
\* then PRATA, and the first match decides: Ouro whenever OURO occurs, Ródio
\* when OURO does not and RÓDIO or RODIO does, Prata when only PRATA occurs,
\* Desconhecido when none occurs.
C9_InferBanho ==
    pc = "infer_ret" =>
        /\ HasKW(KW_OURO) => ret = Ouro
        /\ (~HasKW(KW_OURO) /\ (HasKW(KW_RODIO_ACENTO) \/ HasKW(KW_RODIO))) => ret = Rodio
        /\ (~HasKW(KW_OURO) /\ ~HasKW(KW_RODIO_ACENTO) /\ ~HasKW(KW_RODIO)
               /\ HasKW(KW_PRATA)) => ret = Prata
        /\ (~HasKW(KW_OURO) /\ ~HasKW(KW_RODIO_ACENTO) /\ ~HasKW(KW_RODIO)
               /\ ~HasKW(KW_PRATA)) => ret = Desconhecido
        /\ ret \in {Ouro, Rodio, Prata, Desconhecido}

C9_Witness ==
    /\ pc = "infer_ret"
    /\ HasKW(KW_OURO)
    /\ HasKW(KW_RODIO_ACENTO)
    /\ arg # upper(arg)
    /\ ret = Ouro

UniqueKeys(rows) ==
    \A i, j \in Idx(rows) : KeyOf(rows[i]) = KeyOf(rows[j]) => i = j

\* C10: each aggregated movement table has at most one row per key, so the
\* join yields exactly one row per retained forecast row, in order; the
\* output has at most as many rows as retained forecast rows; forecast rows
\* sharing a key get the same production and return quantities.
C10_Duplicates ==
    /\ UniqueKeys(base_retorno.rows)
    /\ UniqueKeys(base_producao.rows)
    /\ pc = "done" =>
          /\ Len(df_merge) = Len(base_proj.rows)
          /\ \A i \in Idx(df_merge) :
                /\ KeyOf(df_merge[i]) = KeyOf(base_proj.rows[i])
                /\ df_merge[i].qtd_projetada = base_proj.rows[i].qtd_projetada
                /\ df_merge[i].qtd_estoque = base_proj.rows[i].qtd_estoque
          /\ Len(df_resultado) <= Len(base_proj.rows)
          /\ \A i, j \in Idx(df_merge) :
                KeyOf(df_merge[i]) = KeyOf(df_merge[j])
                    => /\ df_merge[i].qtd_producao = df_merge[j].qtd_producao
                       /\ df_merge[i].qtd_retorno = df_merge[j].qtd_retorno

C10_Witness ==
    /\ pc = "done"
    /\ Len(df_producao_raw.rows) = 2
    /\ Len(base_producao.rows) = 1
    /\ \E i, j \in Idx(base_proj.rows) :
          /\ i # j
          /\ KeyOf(base_proj.rows[i]) = KeyOf(base_proj.rows[j])
          /\ base_proj.rows[i] # base_proj.rows[j]
          /\ df_merge[i].qtd_producao = 10
          /\ df_merge[j].qtd_producao = 10
    /\ Len(df_merge) = 2

=============================================================================
